---- MODULE Spec2Model ----
(***************************************************************************)
(* Waveform modulator (Galaxy102/waveform).                                *)
(*                                                                         *)
(*   lib/gui.py       _evaluate_input : text -> tuple of bit characters    *)
(*   lib/waveform.py  waveforms       : (code, steps) -> (t, am, fm, pm)   *)
(*                                                                         *)
(* Characters are their codepoints (ord): '0' = 48, '1' = 49, '9' = 57,    *)
(* 'A' = 65, '_' = 95, 'a' = 97, 'd' = 100, LF = 10, e-acute = 233,        *)
(* ARABIC-INDIC DIGIT THREE = 1635.  A str / tuple of characters is a      *)
(* sequence of codepoints.                                                 *)
(*                                                                         *)
(* Times are exact rationals <<numerator, denominator>>; amplitudes are    *)
(* fixed point integers in units of 1/2000000 (so that half of a sine      *)
(* sample is still an integer).  Two amplitudes that differ in this        *)
(* representation differ by at least 5e-7, far above the 1e-9 tolerance.   *)
(***************************************************************************)
EXTENDS Integers, Sequences, FiniteSets, TLC

VARIABLES call, pc, exc, inp, parsed, code, steps, slow, np, nat,
          args, env, out, files, status, calls, lines, plots

\* The process around the library: the command line of main.py, what was
\* printed, the files written, the exit status, the callback invocations of
\* the interactive loop and the lines it has read.
proc == <<args, env, out, files, status, calls, lines, plots>>

vars == <<call, pc, exc, inp, parsed, code, steps, slow, np, nat, proc>>

\* ------------------------------------------------------------------ bounds
\* Longest text handed to _evaluate_input.
MaxText == 4
\* Longest code handed to waveforms.
MaxLen == 3
\* Largest of the small values of steps (49 is added to them, see StepsSet).
MaxSteps == 4

\* ------------------------------------------------------------- lib/gui.py

\* _BINARY_PATTERN = re.compile("[01]+"), used with re.fullmatch
MatchBinary(s) ==
    /\ Len(s) >= 1
    /\ \A i \in 1..Len(s) : s[i] \in {48, 49}

\* _ASCII_PATTERN = re.compile("a_.+", flags=re.ASCII), used with re.fullmatch.
\* re.ASCII only narrows \w \W \b \B \d \D \s \S; the pattern has none of
\* them, so "." is any character but a line feed, whatever its codepoint.
MatchAscii(s) ==
    /\ Len(s) >= 3
    /\ s[1] = 97 /\ s[2] = 95
    /\ \A i \in 3..Len(s) : s[i] # 10

\* The digits zero of the Unicode blocks of decimal digits (category Nd,
\* Unicode 14.0): each block is ten consecutive code points, zero to nine.
NdZeros ==
    {48, 1632, 1776, 1984, 2406, 2534, 2662, 2790, 2918, 3046, 3174, 3302,
     3430, 3558, 3664, 3792, 3872, 4160, 4240, 6112, 6160, 6470, 6608, 6784,
     6800, 6992, 7088, 7232, 7248, 42528, 43216, 43264, 43472, 43504, 43600,
     44016, 65296, 66720, 68912, 69734, 69872, 69942, 70096, 70384, 70736,
     70864, 71248, 71360, 71472, 71904, 72016, 72784, 73040, 73120, 92768,
     92864, 93008, 120782, 120792, 120802, 120812, 120822, 123200, 123632,
     125264, 130032}

\* \d of a str pattern without re.ASCII: any Unicode decimal digit (category
\* Nd), not the ASCII digits only.
IsDecimalDigit(c) == \E z \in NdZeros : c \in z..(z + 9)

\* _DECIMAL_PATTERN = re.compile("d_\d+"), used with re.fullmatch
MatchDecimal(s) ==
    /\ Len(s) >= 3
    /\ s[1] = 100 /\ s[2] = 95
    /\ \A i \in 3..Len(s) : IsDecimalDigit(s[i])

\* int(i) of a one-character string that is a decimal digit
DigitValue(c) == c - (CHOOSE z \in NdZeros : c \in z..(z + 9))

\* bin(n) without its prefix: the binary digits of n >= 0, most significant first
RECURSIVE BinDigits(_)
BinDigits(n) ==
    IF n < 2 THEN <<48 + n>> ELSE BinDigits(n \div 2) \o <<48 + (n % 2)>>

\* "{:0<width>b}".format(n): zero padded on the left to AT LEAST width
\* characters; a longer number keeps all its digits
FormatBin(n, width) ==
    LET b == BinDigits(n)
    IN  IF Len(b) >= width THEN b
        ELSE [i \in 1..(width - Len(b)) |-> 48] \o b

\* for i in inp[2:]: bit_string += fmt.format(...)
RECURSIVE AsciiBits(_)
AsciiBits(s) ==
    IF s = <<>> THEN <<>> ELSE FormatBin(Head(s), 7) \o AsciiBits(Tail(s))

RECURSIVE BcdBits(_)
BcdBits(s) ==
    IF s = <<>> THEN <<>> ELSE FormatBin(DigitValue(Head(s)), 4) \o BcdBits(Tail(s))

\* The binary branch as a bug would have it: the bits in reverse order.
BinaryBitsMutant(s) == [i \in 1..Len(s) |-> s[Len(s) + 1 - i]]

\* bit_string = inp
BinaryBits(s) == s

\* _evaluate_input(inp): exc is "" for a return of tuple(bit_string) and
\* "ValueError" for the raise, which returns nothing.
_evaluate_input(s) ==
    IF MatchBinary(s) THEN [exc |-> "", value |-> BinaryBits(s)]
    ELSE IF MatchAscii(s) THEN [exc |-> "", value |-> AsciiBits(SubSeq(s, 3, Len(s)))]
    ELSE IF MatchDecimal(s) THEN [exc |-> "", value |-> BcdBits(SubSeq(s, 3, Len(s)))]
    ELSE [exc |-> "ValueError", value |-> <<>>]

\* -------------------------------------------------------- lib/waveform.py

Min(a, b) == IF a < b THEN a ELSE b
Max(a, b) == IF a > b THEN a ELSE b

RECURSIVE Gcd(_, _)
Gcd(a, b) == IF b = 0 THEN a ELSE Gcd(b, a % b)

\* A float that holds the fraction n/d (d > 0), in lowest terms.
Rat(n, d) == LET g == Gcd(n, d) IN <<n \div g, d \div g>>

\* a + b of two such floats
RatAdd(a, b) == Rat(a[1] * b[2] + b[1] * a[2], a[2] * b[2])

\* math.sin(2 * math.pi * k / d) for k in 0..d-1, in units of 1/2000000,
\* rounded to the nearest even integer; numpy.sin agrees with math.sin to
\* well below this unit.
SinTable ==
    [d \in (1..8) \cup {49} |->
       CASE d = 1 -> <<0>>
         [] d = 2 -> <<0, 0>>
         [] d = 3 -> <<0, 1732050, -1732050>>
         [] d = 4 -> <<0, 2000000, 0, -2000000>>
         [] d = 5 -> <<0, 1902114, 1175570, -1175570, -1902114>>
         [] d = 6 -> <<0, 1732050, 1732050, 0, -1732050, -1732050>>
         [] d = 7 -> <<0, 1563662, 1949856, 867768, -867768, -1949856, -1563662>>
         [] d = 8 -> <<0, 1414214, 2000000, 1414214, 0, -1414214, -2000000, -1414214>>
         [] d = 49 -> <<0, 255754, 507310, 750534, 981436, 1196222, 1391366,
                        1563662, 1710286, 1828826, 1917336, 1974364, 1998972, 1990758,
                        1949856, 1876936, 1773198, 1640344, 1480556, 1296456, 1091070,
                        867768, 630216, 382318, 128140, -128140, -382318, -630216,
                        -867768, -1091070, -1296456, -1480556, -1640344, -1773198,
                        -1876936, -1949856, -1990758, -1998972, -1974364, -1917336,
                        -1828826, -1710286, -1563662, -1391366, -1196222, -981436,
                        -750534, -507310, -255754>>]

\* sin(x * 2 * pi) of a time x = n/d
SinTurns(x) == SinTable[x[2]][(x[1] % x[2]) + 1]

\* sin(2 * x * 2 * pi)
SinTwoTurns(x) == SinTurns(Rat(2 * x[1], x[2]))

\* seq[:n] of Python
SliceTo(seq, n) ==
    SubSeq(seq, 1, IF n >= 0 THEN Min(n, Len(seq)) ELSE Max(Len(seq) + n, 0))

\* a[lo:hi] = rhs (0-based, hi exclusive), for a slice that lies in a
SetSlice(a, lo, hi, rhs) ==
    [j \in 1..Len(a) |-> IF lo < j /\ j <= hi THEN rhs[j - lo] ELSE a[j]]

\* int(val) of a bit character
BitValue(val) == val - 48

\* ---- IEEE-754 double arithmetic of numpy.arange(0, n, 1 / s) --------------
\* numpy takes the length of arange(start, stop, step) as
\* ceil((stop - start) / step), computed in doubles.  With step = fl(1/s) the
\* quotient fl(n / fl(1/s)) is n*s or the next double above it; the latter
\* makes the length n*s + 1.  For s not a power of two, let
\* 2^(c-1) < s < 2^c and m = round(2^(52+c) / s) the mantissa of fl(1/s);
\* d = 2^(52+c) - s*m is its representation error.  The exact quotient is
\* n*s + n*d/m, which rounds above n*s exactly when d > 0 and
\* n*d*s >= 2^(c-1+k), where 2^k <= n*s < 2^(k+1).

RECURSIVE Pow2(_)
Pow2(e) == IF e = 0 THEN 1 ELSE 2 * Pow2(e - 1)

RECURSIVE Pow2Mod(_, _)
Pow2Mod(e, s) == IF e = 0 THEN 1 % s ELSE (2 * Pow2Mod(e - 1, s)) % s

RECURSIVE CeilLog2(_)
CeilLog2(s) == IF s <= 1 THEN 0 ELSE 1 + CeilLog2((s + 1) \div 2)

RECURSIVE FloorLog2(_)
FloorLog2(x) == IF x <= 1 THEN 0 ELSE 1 + FloorLog2(x \div 2)

\* 1 when fl(n / fl(1/s)) > n*s, else 0 (n >= 1, s >= 1)
DivisionRoundsUp(n, s) ==
    LET c == CeilLog2(s)
        rem == Pow2Mod(52 + c, s)
        d == IF 2 * rem < s THEN rem ELSE rem - s
        k == FloorLog2(n * s)
    IN  IF Pow2(c) = s \/ d <= 0 THEN 0
        ELSE IF n * d * s >= Pow2(c - 1 + k) THEN 1 ELSE 0

\* len(numpy.arange(0, n, 1 / s)), s # 0
ArangeLen(n, s) ==
    IF n = 0 \/ s < 0 THEN 0 ELSE n * s + DivisionRoundsUp(n, s)

\* phase_shift = phase_shift ^ (not bool(int(val)))
PhaseUpdate(phase_shift, val) == phase_shift # (BitValue(val) = 0)

\* factor = -1 if phase_shift else 1
Factor(phase_shift) == IF phase_shift THEN -1 ELSE 1

\* (int(val) + 1) / 2 * x, for x a multiple of two units
AmSample(val, x) == ((BitValue(val) + 1) * x) \div 2

\* sin_2t[i % steps] if int(val) else sin_t[i % steps]
FmSample(val, x_2t, x_t) == IF BitValue(val) # 0 THEN x_2t ELSE x_t

\* sin_2t[:steps] if int(val) else sin_t[:steps]
FmSlice(val, sin_2t, sin_t, n) ==
    IF BitValue(val) # 0 THEN SliceTo(sin_2t, n) ELSE SliceTo(sin_t, n)

\* ------------------------------------------------------------ the inputs

\* Sequences over S of length lo..hi
SeqsOf(S, lo, hi) == UNION {[1..k -> S] : k \in lo..hi}

\* LF, '0', '1', '9', '_', 'a', 'd', e-acute, ARABIC-INDIC DIGIT THREE
Alphabet == {10, 48, 49, 57, 95, 97, 100, 233, 1635}

\* "xyz", "a_A", "d_12", "d_1a": texts the specification names; "d_" with the
\* digits U+06F3 and U+FF19 of two more blocks
NamedTexts ==
    {<<120, 121, 122>>, <<97, 95, 65>>, <<100, 95, 49, 50>>, <<100, 95, 49, 97>>,
     <<100, 95, 1779>>, <<100, 95, 49, 65305>>}

Texts == SeqsOf(Alphabet, 0, MaxText) \cup NamedTexts

\* Codes: tuples of '0' / '1', the empty one included
Codes == SeqsOf({48, 49}, 0, MaxLen)

\* steps: --steps is any int.  49 is the smallest value whose reciprocal
\* makes the double division of numpy.arange round up.
StepsSet == (-2..MaxSteps) \cup {49}

\* What uninitialized memory may hold
Junk == {0, 1234567}

\* The locals of a backend that has not been called
Idle ==
    [pc |-> "idle", exc |-> "", t |-> <<>>, sin_t |-> <<>>, sin_2t |-> <<>>,
     am |-> <<>>, fm |-> <<>>, pm |-> <<>>, phase_shift |-> FALSE, idx |-> 0, i |-> 0]

\* ------------------------------------------------------- the state machine
\* call is what the run calls: _evaluate_input(inp), waveforms(code, steps),
\* or both backends in turn on the same (code, steps).  pc is the run's
\* position, exc the exception that ended it.  np and nat hold the locals of
\* _waveforms_numpy and _waveforms_native and their positions.

\* An optional command line argument: None when the option is absent, else
\* the one-element tuple holding its text.
None == <<>>

Some(x) == <<x>>

\* No command line: the library is called directly.
NoProcess ==
    /\ args = [store_plot |-> None, store_wave |-> None, nogui |-> FALSE]
    /\ env = [matplotlib |-> TRUE, numpy |-> TRUE, tkinter |-> TRUE, display |-> TRUE]
    /\ out = <<>>
    /\ files = {}
    /\ status = "running"
    /\ calls = <<>>
    /\ lines = <<>>
    /\ plots = 0

Init ==
    /\ NoProcess
    /\ pc = "start"
    /\ exc = ""
    /\ parsed = <<>>
    /\ np = Idle
    /\ nat = Idle
    /\ call \in {"_evaluate_input", "waveforms", "backends"}
    /\ \/ /\ call = "_evaluate_input"
          /\ inp \in Texts
          /\ code = <<>>
          /\ steps = 200
          /\ slow = FALSE
       \/ /\ call = "waveforms"
          /\ inp = <<>>
          /\ code \in Codes
          /\ steps \in StepsSet
          /\ slow \in BOOLEAN
       \/ /\ call = "backends"
          /\ inp = <<>>
          /\ code \in Codes
          /\ steps \in StepsSet
          /\ slow = FALSE

\* _evaluate_input(inp)
EvaluateInput ==
    /\ call = "_evaluate_input"
    /\ pc = "start"
    /\ LET r == _evaluate_input(inp)
       IN  /\ parsed' = r.value
           /\ exc' = r.exc
           /\ pc' = IF r.exc = "" THEN "done" ELSE "raised"
    /\ UNCHANGED <<proc, call, inp, code, steps, slow, np, nat>>

\* waveforms(code, steps): "if slow: return _waveforms_native(...) else:
\* return _waveforms_numpy(...)"
Waveforms ==
    /\ call = "waveforms"
    /\ pc = "start"
    /\ pc' = "running"
    /\ IF slow
         THEN nat' = [nat EXCEPT !.pc = "enter"] /\ np' = np
         ELSE np' = [np EXCEPT !.pc = "enter"] /\ nat' = nat
    /\ UNCHANGED <<proc, call, exc, inp, parsed, code, steps, slow>>

\* The two backends called on the same arguments, the vectorized one first.
CallNumpy ==
    /\ call = "backends"
    /\ pc = "start"
    /\ pc' = "running"
    /\ np' = [np EXCEPT !.pc = "enter"]
    /\ UNCHANGED <<proc, call, exc, inp, parsed, code, steps, slow, nat>>

CallNative ==
    /\ call = "backends"
    /\ pc = "running"
    /\ np.pc \in {"done", "raised"}
    /\ nat.pc = "idle"
    /\ nat' = [nat EXCEPT !.pc = "enter"]
    /\ UNCHANGED <<proc, call, pc, exc, inp, parsed, code, steps, slow, np>>

\* ---- _waveforms_numpy ------------------------------------------------------

\* Lines 46-56: t = numpy.arange(0, len(code), 1 / steps), the base sine
\* curves, am = fm = pm = numpy.empty_like(t), phase_shift = False.  1 / steps
\* raises ZeroDivisionError for steps = 0.  empty_like leaves the arrays
\* uninitialized: junk is what their memory held.
NumpySetup ==
    /\ np.pc = "enter"
    /\ IF steps = 0
         THEN np' = [np EXCEPT !.pc = "raised", !.exc = "ZeroDivisionError"]
         ELSE \E junk \in Junk \X Junk \X Junk :
                LET len == ArangeLen(Len(code), steps)
                    t == [j \in 1..len |-> Rat(j - 1, steps)]
                    head == SliceTo(t, steps)
                IN  np' = [np EXCEPT !.pc = "loop",
                                     !.t = t,
                                     !.sin_t = [k \in 1..Len(head) |-> SinTurns(head[k])],
                                     !.sin_2t = [k \in 1..Len(head) |-> SinTwoTurns(head[k])],
                                     !.am = [j \in 1..len |-> junk[1]],
                                     !.fm = [j \in 1..len |-> junk[2]],
                                     !.pm = [j \in 1..len |-> junk[3]],
                                     !.phase_shift = FALSE,
                                     !.idx = 0]
    /\ UNCHANGED <<proc, call, pc, exc, inp, parsed, code, steps, slow, nat>>

\* Lines 57-72: one pass of "for idx, val in enumerate(code)"
NumpyCycle ==
    /\ np.pc = "loop"
    /\ np.idx < Len(code)
    /\ LET val == code[np.idx + 1]
           idx_low == np.idx * steps
           idx_high == (np.idx + 1) * steps
           base == SliceTo(np.sin_t, steps)
           phase_shift == IF np.idx > 0 THEN PhaseUpdate(np.phase_shift, val)
                                        ELSE np.phase_shift
           factor == Factor(phase_shift)
       IN  np' = [np EXCEPT
                    !.am = SetSlice(@, idx_low, idx_high,
                                    [k \in 1..Len(base) |-> AmSample(val, base[k])]),
                    !.fm = SetSlice(@, idx_low, idx_high,
                                    FmSlice(val, np.sin_2t, np.sin_t, steps)),
                    !.pm = SetSlice(@, idx_low, idx_high,
                                    [k \in 1..Len(base) |-> factor * base[k]]),
                    !.phase_shift = phase_shift,
                    !.idx = @ + 1]
    /\ UNCHANGED <<proc, call, pc, exc, inp, parsed, code, steps, slow, nat>>

\* Line 73: return t, am, fm, pm
NumpyReturn ==
    /\ np.pc = "loop"
    /\ np.idx >= Len(code)
    /\ np' = [np EXCEPT !.pc = "done"]
    /\ UNCHANGED <<proc, call, pc, exc, inp, parsed, code, steps, slow, nat>>

\* ---- _waveforms_native -----------------------------------------------------

\* Lines 87-88: t = [0.0] * (steps * len(code)); step_width = 1 / steps, which
\* raises ZeroDivisionError for steps = 0
NativeSetup ==
    /\ nat.pc = "enter"
    /\ IF steps = 0
         THEN nat' = [nat EXCEPT !.pc = "raised", !.exc = "ZeroDivisionError"]
         ELSE nat' = [nat EXCEPT !.pc = "times",
                                 !.t = [j \in 1..Max(steps * Len(code), 0) |-> Rat(0, 1)],
                                 !.i = 1]
    /\ UNCHANGED <<proc, call, pc, exc, inp, parsed, code, steps, slow, np>>

\* Lines 89-90: for idx in range(1, len(t)): t[idx] = t[idx - 1] + step_width
NativeTimeStep ==
    /\ nat.pc = "times"
    /\ nat.i < Len(nat.t)
    /\ nat' = [nat EXCEPT !.t[nat.i + 1] = RatAdd(nat.t[nat.i], Rat(1, steps)),
                          !.i = @ + 1]
    /\ UNCHANGED <<proc, call, pc, exc, inp, parsed, code, steps, slow, np>>

\* Lines 92-93: sin_t = [0.0] * steps; sin_2t = [0.0] * steps
NativeSineSetup ==
    /\ nat.pc = "times"
    /\ nat.i >= Len(nat.t)
    /\ nat' = [nat EXCEPT !.pc = "sines",
                          !.sin_t = [k \in 1..Max(steps, 0) |-> 0],
                          !.sin_2t = [k \in 1..Max(steps, 0) |-> 0],
                          !.i = 0]
    /\ UNCHANGED <<proc, call, pc, exc, inp, parsed, code, steps, slow, np>>

\* Lines 94-96: for idx, t_i in enumerate(t[:steps])
NativeSineStep ==
    /\ nat.pc = "sines"
    /\ nat.i < Len(SliceTo(nat.t, steps))
    /\ nat' = [nat EXCEPT !.sin_t[nat.i + 1] = SinTurns(nat.t[nat.i + 1]),
                          !.sin_2t[nat.i + 1] = SinTwoTurns(nat.t[nat.i + 1]),
                          !.i = @ + 1]
    /\ UNCHANGED <<proc, call, pc, exc, inp, parsed, code, steps, slow, np>>

\* Lines 98-103: am = fm = pm = [0.0] * len(t); phase_shift = False
NativeAlloc ==
    /\ nat.pc = "sines"
    /\ nat.i >= Len(SliceTo(nat.t, steps))
    /\ nat' = [nat EXCEPT !.pc = "loop",
                          !.am = [j \in 1..Len(nat.t) |-> 0],
                          !.fm = [j \in 1..Len(nat.t) |-> 0],
                          !.pm = [j \in 1..Len(nat.t) |-> 0],
                          !.phase_shift = FALSE,
                          !.idx = 0,
                          !.i = 0]
    /\ UNCHANGED <<proc, call, pc, exc, inp, parsed, code, steps, slow, np>>

\* Lines 104-109: the next cycle of "for idx, val in enumerate(code)" starts
\* "for i in range(idx_low, idx_high)"
NativeCycle ==
    /\ nat.pc = "loop"
    /\ nat.idx < Len(code)
    /\ nat' = [nat EXCEPT !.pc = "samples", !.i = nat.idx * steps]
    /\ UNCHANGED <<proc, call, pc, exc, inp, parsed, code, steps, slow, np>>

\* Lines 110-120: the body of "for i in range(idx_low, idx_high)"
NativeSample ==
    /\ nat.pc = "samples"
    /\ nat.i < (nat.idx + 1) * steps
    /\ LET val == code[nat.idx + 1]
           k == (nat.i % steps) + 1
           phase_shift == IF nat.idx > 0 THEN PhaseUpdate(nat.phase_shift, val)
                                         ELSE nat.phase_shift
           factor == Factor(phase_shift)
       IN  nat' = [nat EXCEPT
                     !.am[nat.i + 1] = AmSample(val, nat.sin_t[k]),
                     !.fm[nat.i + 1] = FmSample(val, nat.sin_2t[k], nat.sin_t[k]),
                     !.pm[nat.i + 1] = factor * nat.sin_t[k],
                     !.phase_shift = phase_shift,
                     !.i = @ + 1]
    /\ UNCHANGED <<proc, call, pc, exc, inp, parsed, code, steps, slow, np>>

\* The range of i is exhausted: on to the next idx
NativeCycleEnd ==
    /\ nat.pc = "samples"
    /\ nat.i >= (nat.idx + 1) * steps
    /\ nat' = [nat EXCEPT !.pc = "loop", !.idx = @ + 1]
    /\ UNCHANGED <<proc, call, pc, exc, inp, parsed, code, steps, slow, np>>

\* Line 121: return t, am, fm, pm
NativeReturn ==
    /\ nat.pc = "loop"
    /\ nat.idx >= Len(code)
    /\ nat' = [nat EXCEPT !.pc = "done"]
    /\ UNCHANGED <<proc, call, pc, exc, inp, parsed, code, steps, slow, np>>

\* ---- the end of the run ------------------------------------------------

Finished(b) == b.pc \in {"done", "raised"}

\* waveforms returns what its backend returned, or its exception goes on;
\* the run of both backends ends when the second one has.
Return ==
    /\ pc = "running"
    /\ \/ /\ call = "waveforms"
          /\ LET b == IF slow THEN nat ELSE np
             IN  /\ Finished(b)
                 /\ pc' = b.pc
                 /\ exc' = b.exc
       \/ /\ call = "backends"
          /\ Finished(np) /\ Finished(nat)
          /\ pc' = "done"
          /\ exc' = ""
    /\ UNCHANGED <<proc, call, inp, parsed, code, steps, slow, np, nat>>

Next ==
    \/ EvaluateInput
    \/ Waveforms
    \/ CallNumpy
    \/ CallNative
    \/ NumpySetup
    \/ NumpyCycle
    \/ NumpyReturn
    \/ NativeSetup
    \/ NativeTimeStep
    \/ NativeSineSetup
    \/ NativeSineStep
    \/ NativeAlloc
    \/ NativeCycle
    \/ NativeSample
    \/ NativeCycleEnd
    \/ NativeReturn
    \/ Return

Spec == Init /\ [][Next]_vars

\* ================================================================ claims

\* The two backends' locals
Backends == {np, nat}

\* generate's precondition: N >= 1 bits and steps >= 1
ValidArgs == Len(code) >= 1 /\ steps >= 1

\* b returned its four arrays
Returned(b) == b.pc = "done"

\* sin_t[k] = sin(2 pi k / steps) of the specification, k = 0..steps-1
BaseSine(k) == SinTurns(Rat(k, steps))

\* sin_2t[k] = sin(2 pi 2 k / steps) of the specification
DoubleSine(k) == SinTurns(Rat(2 * k, steps))

\* The cycle's sign as the specification folds it: +1 for cycle 0, flipped
\* by every later '0' bit, kept by every later '1' bit.
RECURSIVE CycleFactor(_)
CycleFactor(i) ==
    IF i = 0 THEN 1
    ELSE IF code[i + 1] = 48 THEN 0 - CycleFactor(i - 1) ELSE CycleFactor(i - 1)

\* The w-bit, most significant bit first, zero padded binary form of v
FixedBits(v, w) == [p \in 1..w |-> 48 + ((v \div Pow2(w - p)) % 2)]

\* The in-order concatenation of the w-bit forms of f(c), c in s
RECURSIVE ConcatBits(_, _, _)
ConcatBits(s, w, off) ==
    IF s = <<>> THEN <<>>
    ELSE FixedBits(Head(s) - off, w) \o ConcatBits(Tail(s), w, off)

\* inp[2:]
Payload == SubSeq(inp, 3, Len(inp))

HasPrefix(a, b) == Len(inp) >= 3 /\ inp[1] = a /\ inp[2] = b

\* The three forms of the specification
BinaryForm == Len(inp) >= 1 /\ \A p \in 1..Len(inp) : inp[p] \in {48, 49}
AsciiForm == HasPrefix(97, 95)
BcdForm == HasPrefix(100, 95) /\ \A p \in 3..Len(inp) : inp[p] \in 48..57

\* _evaluate_input has been called and has returned or raised
Evaluated == call = "_evaluate_input" /\ pc # "start"

\* C1: called with the same valid (code, steps), _waveforms_numpy and
\* _waveforms_native both return, and their t, am, fm and pm arrays are equal
\* sample by sample.
C1_BackendsAgree ==
    (call = "backends" /\ pc = "done" /\ ValidArgs) =>
        /\ Returned(np) /\ Returned(nat)
        /\ np.t = nat.t
        /\ np.am = nat.am
        /\ np.fm = nat.fm
        /\ np.pm = nat.pm

\* C2: in the output of either backend every sample k of cycle i is
\* pm[i*steps + k] = factor_i * sin_t[k], with factor_0 = +1 and factor_i
\* flipped against factor_(i-1) exactly when bit_i is '0'.
C2_PmParity ==
    \A b \in Backends :
        (Returned(b) /\ ValidArgs) =>
            \A i \in 0..(Len(code) - 1) : \A k \in 0..(steps - 1) :
                /\ i * steps + k + 1 \in DOMAIN b.pm
                /\ b.pm[i * steps + k + 1] = CycleFactor(i) * BaseSine(k)

\* C3: for N >= 1 bits and steps >= 1 the four arrays of either backend all
\* have length exactly N*steps, and t[j] = j/steps for every index j.
C3_LengthAndTime ==
    \A b \in Backends :
        (Returned(b) /\ ValidArgs) =>
            /\ Len(b.t) = Len(code) * steps
            /\ Len(b.am) = Len(code) * steps
            /\ Len(b.fm) = Len(code) * steps
            /\ Len(b.pm) = Len(code) * steps
            /\ \A j \in 0..(Len(b.t) - 1) : b.t[j + 1][1] * steps = j * b.t[j + 1][2]

\* C4: with steps < 1 or an empty bit sequence neither backend, nor
\* waveforms, ever returns arrays: the call ends in an exception.
C4_InvalidArgsRejected ==
    ~ValidArgs =>
        /\ \A b \in Backends : ~Returned(b)
        /\ (call = "waveforms" => pc # "done")

\* C5: for "a_" + S with S non-empty, if every character of S is in 0..127
\* the result is the concatenation of the 7-bit codepoints, 7*len(S) bits;
\* otherwise _evaluate_input raises.
C5_AsciiSevenBits ==
    (Evaluated /\ AsciiForm) =>
        IF \A p \in 3..Len(inp) : inp[p] \in 0..127
          THEN /\ pc = "done"
               /\ Len(parsed) = 7 * Len(Payload)
               /\ parsed = ConcatBits(Payload, 7, 0)
          ELSE pc = "raised" /\ parsed = <<>>

\* C6: every text that is in full none of the three forms ([01]+, "a_" and
\* one or more characters, "d_" and one or more digits 0-9) raises, and no
\* bits are returned.
C6_NonMatchingRejected ==
    (Evaluated /\ ~BinaryForm /\ ~AsciiForm /\ ~BcdForm) =>
        pc = "raised" /\ parsed = <<>>

\* C7 as stated: for every text of '0'/'1' characters only, the empty one
\* included, _evaluate_input returns the text's characters in order.
C7_BinaryIdentityAnyLength ==
    (Evaluated /\ \A p \in 1..Len(inp) : inp[p] \in {48, 49}) =>
        pc = "done" /\ parsed = inp

\* C7 as amended: for every NON-EMPTY text of '0'/'1' characters only,
\* _evaluate_input returns one element per character, in order, each the
\* character itself.
C7_BinaryIdentity ==
    (Evaluated /\ BinaryForm) =>
        /\ pc = "done"
        /\ Len(parsed) = Len(inp)
        /\ \A p \in 1..Len(inp) : parsed[p] = inp[p]

\* A text of several differing bits has been evaluated to itself.
C7_Witness ==
    /\ Evaluated /\ pc = "done"
    /\ inp = <<49, 48, 48, 49>>
    /\ parsed = <<49, 48, 48, 49>>

\* C8: "d_" + D with D one or more of '0'..'9' gives the concatenation of
\* each digit's own 4-bit form, 4*len(D) bits; and a "d_" text is accepted
\* only when every payload character is one of '0'..'9'.
C8_BcdDigits ==
    /\ (Evaluated /\ BcdForm) =>
          /\ pc = "done"
          /\ Len(parsed) = 4 * Len(Payload)
          /\ parsed = ConcatBits(Payload, 4, 48)
    /\ (Evaluated /\ HasPrefix(100, 95) /\ pc = "done") =>
          \A p \in 3..Len(inp) : inp[p] \in 48..57

\* C9: every sample j of the output of either backend lies in a cycle
\* i = j // steps of the code and is am[j] = ((int(bit_i) + 1) / 2) * sin_t[j % steps].
C9_AmPerSample ==
    \A b \in Backends :
        (Returned(b) /\ ValidArgs) =>
            \A j \in 0..(Len(b.am) - 1) :
                /\ j \div steps < Len(code)
                /\ 2 * b.am[j + 1] = (code[(j \div steps) + 1] - 48 + 1) * BaseSine(j % steps)

\* C10: every sample j of the output of either backend lies in a cycle
\* i = j // steps of the code and is fm[j] = sin_2t[j % steps] for bit_i = '1',
\* sin_t[j % steps] for bit_i = '0'.
C10_FmPerSample ==
    \A b \in Backends :
        (Returned(b) /\ ValidArgs) =>
            \A j \in 0..(Len(b.fm) - 1) :
                /\ j \div steps < Len(code)
                /\ b.fm[j + 1] = IF code[(j \div steps) + 1] = 49
                                   THEN DoubleSine(j % steps)
                                   ELSE BaseSine(j % steps)

\* ---- what holds of the samples that lie in a cycle ----------------------

\* Every sample of a cycle has the amplitude and frequency modulation the
\* specification gives it, in either backend.
InCycleAmFm ==
    \A b \in Backends :
        (Returned(b) /\ ValidArgs) =>
            \A j \in 0..(Len(code) * steps - 1) :
                /\ 2 * b.am[j + 1] = (code[(j \div steps) + 1] - 48 + 1) * BaseSine(j % steps)
                /\ b.fm[j + 1] = IF code[(j \div steps) + 1] = 49
                                   THEN DoubleSine(j % steps)
                                   ELSE BaseSine(j % steps)

\* The vectorized backend alone keeps the phase parity of the specification.
NumpyPmParity ==
    (Returned(np) /\ ValidArgs) =>
        \A i \in 0..(Len(code) - 1) : \A k \in 0..(steps - 1) :
            np.pm[i * steps + k + 1] = CycleFactor(i) * BaseSine(k)

\* The scalar backend alone keeps the lengths and the time axis.
NativeLengthAndTime ==
    (Returned(nat) /\ ValidArgs) =>
        /\ Len(nat.t) = Len(code) * steps
        /\ Len(nat.am) = Len(code) * steps
        /\ Len(nat.fm) = Len(code) * steps
        /\ Len(nat.pm) = Len(code) * steps
        /\ \A j \in 0..(Len(nat.t) - 1) : nat.t[j + 1][1] * steps = j * nat.t[j + 1][2]

\* phase_shift changes only on the first sample of a cycle: the vectorized
\* backend has no state in which it could do otherwise, the scalar backend
\* violates this (lines 116-118 run for every i).
PhaseShiftOncePerCycle ==
    [][(nat.pc = "samples" /\ nat'.phase_shift # nat.phase_shift)
          => nat.i = nat.idx * steps]_vars

\* ================================================== main.py and the CLI loop
\* The program run from its command line.  args is the parsed command line,
\* env what the installation has (the modules that can be imported, a
\* display for Tk), out what the user is shown in order (printed messages,
\* message boxes and plot windows), files the files written, status the exit
\* status of the process, lines the texts entered at the prompt or in the
\* window, calls the arguments of the callback's invocations and plots the
\* number of plot windows whose plt.show() has not returned.

\* The largest number of texts entered
MaxLines == 2

\* The texts given on the command line or entered at the prompt:
\* "", "1", "10", "xyz", "d_9"
Entered == {<<>>, <<49>>, <<49, 48>>, <<120, 121, 122>>, <<100, 95, 57>>}

\* --steps takes any int
MainSteps == {-1, 0, 1, 2}

Optional(S) == {None} \cup {Some(x) : x \in S}

\* The installations: matplotlib imports numpy, so that it is there only
\* where numpy is.
Installations ==
    {e \in [matplotlib : BOOLEAN, numpy : BOOLEAN, tkinter : BOOLEAN, display : BOOLEAN] :
        e.matplotlib => e.numpy}

\* The backend waveforms() dispatches to
Backend == IF slow THEN nat ELSE np

\* plot_waveforms: steps = int(len(t) / len(values)); t[::steps] raises
\* ValueError("slice step cannot be zero") when that is 0.
PlotRaises(t, values) == Len(t) \div Len(values) = 0

\* The process started with a command line, before the imports of main.py
InitMain ==
    /\ call = "main"
    /\ pc = "import"
    /\ exc = ""
    /\ inp = <<>>
    /\ parsed = <<>>
    /\ code = <<>>
    /\ np = Idle
    /\ nat = Idle
    /\ steps \in MainSteps
    /\ slow = FALSE
    /\ args \in [store_plot : Optional(Entered), store_wave : Optional(Entered),
                 nogui : BOOLEAN]
    /\ env \in Installations
    /\ out = <<>>
    /\ files = {}
    /\ status = "running"
    /\ calls = <<>>
    /\ lines = <<>>
    /\ plots = 0

\* An exception nothing catches: traceback, exit status 1
Uncaught(e) ==
    /\ exc' = e
    /\ status' = "1"
    /\ pc' = "exit"

\* main.py lines 24-27.  import lib.plot: without matplotlib, sys.exit(1).
\* import lib.gui: without tkinter gui = False, and the annotations of
\* _evaluate_btn (tkinter.StringVar) raise NameError.  import lib.waveform:
\* slow is whether numpy is missing.  Then parse_args (line 47).
MainImports ==
    /\ call = "main"
    /\ pc = "import"
    /\ IF ~env.matplotlib
         THEN exc' = "SystemExit" /\ status' = "1" /\ pc' = "exit" /\ slow' = slow
         ELSE IF ~env.tkinter
                THEN Uncaught("NameError") /\ slow' = slow
                ELSE /\ slow' = ~env.numpy
                     /\ pc' = "parse_args"
                     /\ UNCHANGED <<exc, status>>
    /\ UNCHANGED <<call, inp, parsed, code, steps, np, nat,
                   args, env, out, files, calls, lines, plots>>

\* main.py lines 48-49: both output flags given prints a message, and the
\* program goes on.
MainCheckFlags ==
    /\ call = "main"
    /\ pc = "parse_args"
    /\ out' = IF args.store_plot # None /\ args.store_wave # None
                THEN Append(out, "Please decide for either plotting or storing the waveform.")
                ELSE out
    /\ pc' = "dispatch"
    /\ UNCHANGED <<call, exc, inp, parsed, code, steps, slow, np, nat,
                   args, env, files, status, calls, lines, plots>>

\* waveforms(parsed', steps=args.steps) is entered
EnterWaveforms ==
    /\ code' = parsed'
    /\ IF slow
         THEN nat' = [Idle EXCEPT !.pc = "enter"] /\ np' = Idle
         ELSE np' = [Idle EXCEPT !.pc = "enter"] /\ nat' = Idle

\* main.py lines 50-52 and gui.start: no output flag.  "if gui and not
\* force_nogui": _gui, whose tkinter.Tk() raises TclError without a display
\* and else opens the window and enters its main loop; else _nogui.
MainStart ==
    /\ call = "main"
    /\ pc = "dispatch"
    /\ args.store_plot = None /\ args.store_wave = None
    /\ IF env.tkinter /\ ~args.nogui
         THEN IF env.display
                THEN pc' = "mainloop" /\ UNCHANGED <<exc, status>>
                ELSE Uncaught("TclError")
         ELSE pc' = "banner" /\ UNCHANGED <<exc, status>>
    /\ UNCHANGED <<call, inp, parsed, code, steps, slow, np, nat,
                   args, env, out, files, calls, lines, plots>>

\* The one-shot branches evaluate their argument and call waveforms; a
\* ValueError of _evaluate_input ends the process.
OneShot(text, then) ==
    /\ inp' = text
    /\ LET r == _evaluate_input(text)
       IN  IF r.exc # ""
             THEN /\ Uncaught(r.exc)
                  /\ UNCHANGED <<parsed, code, np, nat>>
             ELSE /\ parsed' = r.value
                  /\ EnterWaveforms
                  /\ pc' = then
                  /\ UNCHANGED <<exc, status>>
    /\ UNCHANGED <<call, steps, slow, args, env, out, files, calls, lines, plots>>

\* main.py lines 53-54: --store-plot alone
MainStorePlot ==
    /\ call = "main"
    /\ pc = "dispatch"
    /\ args.store_plot # None /\ args.store_wave = None
    /\ OneShot(args.store_plot[1], "plot_file")

\* main.py lines 57-58: the else branch, taken whenever --store-wave is given,
\* with or without --store-plot
MainStoreWave ==
    /\ call = "main"
    /\ pc = "dispatch"
    /\ args.store_wave # None
    /\ OneShot(args.store_wave[1], "save")

\* The backend runs while waveforms() is being computed, and only then.
Computing == call = "main" /\ pc \in {"plot_file", "save", "callback", "gui_callback"}

MainNumpySetup == Computing /\ NumpySetup

MainNumpyCycle == Computing /\ NumpyCycle

MainNumpyReturn == Computing /\ NumpyReturn

\* The files of main.py: wave_<input>.png, and wave_<input>.txt with its
\* number of rows and whether its footer is written
PngFile == [ext |-> "png", input |-> inp, rows |-> 0, footer |-> FALSE]

TxtFile(rows, footer) == [ext |-> "txt", input |-> inp, rows |-> rows, footer |-> footer]

\* main.py lines 55-56: plot_waveforms(..., target="file", filename=
\* "wave_{}.png".format(args.store_plot)) on what waveforms returned, up to
\* plt.savefig; an exception of waveforms or of the plot ends the process.
MainPlotFile ==
    /\ call = "main"
    /\ pc = "plot_file"
    /\ Finished(Backend)
    /\ IF Backend.pc = "raised"
         THEN Uncaught(Backend.exc)
         ELSE IF PlotRaises(Backend.t, parsed)
                THEN Uncaught("ValueError")
                ELSE pc' = "savefig" /\ UNCHANGED <<exc, status>>
    /\ UNCHANGED <<call, inp, parsed, code, steps, slow, np, nat,
                   args, env, out, files, calls, lines, plots>>

\* plot.py line 94: plt.savefig(filename), and the script ends
MainSavefig ==
    /\ call = "main"
    /\ pc = "savefig"
    /\ files' = files \cup {PngFile}
    /\ status' = "0"
    /\ pc' = "exit"
    /\ UNCHANGED <<call, exc, inp, parsed, code, steps, slow, np, nat,
                   args, env, out, calls, lines, plots>>

\* main.py line 59 and save(), "wave_{}.txt".format(args.store_wave): an
\* exception of waveforms ends the process; else the file is opened, by
\* open(filename, "w") of the slow branch or by numpy.savetxt.
MainSaveFile ==
    /\ call = "main"
    /\ pc = "save"
    /\ Finished(Backend)
    /\ IF Backend.pc = "raised"
         THEN Uncaught(Backend.exc) /\ files' = files
         ELSE /\ files' = files \cup {TxtFile(0, FALSE)}
              /\ pc' = "saving"
              /\ UNCHANGED <<exc, status>>
    /\ UNCHANGED <<call, inp, parsed, code, steps, slow, np, nat,
                   args, env, out, calls, lines, plots>>

\* save() lines 145-152, the file open.  The slow branch writes the header,
\* and its row format "{+9.8f} " raises KeyError on the first row, so that
\* the footer is written only when there is no row at all; numpy.savetxt
\* writes a row per sample and the footer.
MainSaveWrite ==
    /\ call = "main"
    /\ pc = "saving"
    /\ IF slow /\ Len(Backend.t) > 0
         THEN Uncaught("KeyError") /\ files' = files
         ELSE /\ files' = (files \ {TxtFile(0, FALSE)}) \cup {TxtFile(Len(Backend.t), TRUE)}
              /\ status' = "0"
              /\ pc' = "exit"
              /\ exc' = exc
    /\ UNCHANGED <<call, inp, parsed, code, steps, slow, np, nat,
                   args, env, out, calls, lines, plots>>

\* ---- SIGINT outside every handler ----------------------------------------

\* The positions of the run at which no try encloses the code: the script
\* itself, the banner and the head of the loop in _nogui (lines 107-121), its
\* handler of KeyboardInterrupt (lines 135-138), and the main loop of the
\* window.
Unprotected ==
    {"import", "parse_args", "dispatch", "plot_file", "savefig", "save", "saving",
     "banner", "head", "leaving", "left", "mainloop"}

\* What save() can have left of wave_<input>.txt when it is interrupted with
\* the file open: numpy.savetxt any number of the rows, or all with the
\* footer; the slow branch no row, and the footer when there is none to write.
Written ==
    IF slow
      THEN {TxtFile(0, FALSE)} \cup (IF Len(Backend.t) = 0 THEN {TxtFile(0, TRUE)} ELSE {})
      ELSE {TxtFile(k, FALSE) : k \in 0..Len(Backend.t)} \cup {TxtFile(Len(Backend.t), TRUE)}

\* KeyboardInterrupt that nothing catches: traceback, and the process ends
\* killed by SIGINT, with no exit status.  In the banner some of it may have
\* been printed, in plt.savefig the file may be there, and in the writing of
\* the rows any number of them.
Interrupt ==
    /\ call = "main"
    /\ pc \in Unprotected
    /\ exc' = "KeyboardInterrupt"
    /\ status' = "SIGINT"
    /\ pc' = "exit"
    /\ out' \in (IF pc = "banner"
                   THEN {out, Append(out, "AM FM PM Modulation Calculator")}
                   ELSE {out})
    /\ files' \in (IF pc = "savefig" THEN {files, files \cup {PngFile}}
                   ELSE IF pc = "saving"
                     THEN {(files \ {TxtFile(0, FALSE)}) \cup {f} : f \in Written}
                     ELSE {files})
    /\ UNCHANGED <<call, inp, parsed, code, steps, slow, np, nat,
                   args, env, calls, lines, plots>>

\* ---- _nogui ---------------------------------------------------------------
\* One action per position at which a keyboard interrupt makes a difference
\* to what is printed, called, written or returned: statements between two
\* such positions are one step, since an interrupt among them leaves the same
\* as one just before or just after them.

\* gui.py lines 107-119: the banner, on the first run
CliBanner ==
    /\ call = "main"
    /\ pc = "banner"
    /\ out' = Append(out, "AM FM PM Modulation Calculator")
    /\ pc' = "head"
    /\ UNCHANGED <<call, exc, inp, parsed, code, steps, slow, np, nat,
                   args, env, files, status, calls, lines, plots>>

\* gui.py lines 120-122: the head of the loop, before the try; then input()
\* is entered.
CliHead ==
    /\ call = "main"
    /\ pc = "head"
    /\ pc' = "input"
    /\ UNCHANGED <<call, exc, inp, parsed, code, steps, slow, np, nat, proc>>

\* gui.py line 123: input("Code: ") writes its prompt and waits
CliPrompt ==
    /\ call = "main"
    /\ pc = "input"
    /\ out' = Append(out, "Code: ")
    /\ pc' = "waiting"
    /\ UNCHANGED <<call, exc, inp, parsed, code, steps, slow, np, nat,
                   args, env, files, status, calls, lines, plots>>

\* gui.py line 123: input() returns a line
CliLine ==
    /\ call = "main"
    /\ pc = "waiting"
    /\ Len(lines) < MaxLines
    /\ \E user_input \in Entered :
         /\ lines' = Append(lines, user_input)
         /\ inp' = user_input
    /\ pc' = "read"
    /\ UNCHANGED <<call, exc, parsed, code, steps, slow, np, nat,
                   args, env, out, files, status, calls, plots>>

\* gui.py line 123: input() raises EOFError at the end of standard input,
\* which no handler of the loop catches.
CliEof ==
    /\ call = "main"
    /\ pc = "waiting"
    /\ Uncaught("EOFError")
    /\ UNCHANGED <<call, inp, parsed, code, steps, slow, np, nat,
                   args, env, out, files, calls, lines, plots>>

\* gui.py lines 127-129 and 131-132: _evaluate_input on the line; on success
\* "Input okay. Starting plot.", on ValueError the handler prints the message.
CliEvaluate ==
    /\ call = "main"
    /\ pc = "read"
    /\ LET r == _evaluate_input(inp)
       IN  IF r.exc = ""
             THEN /\ parsed' = r.value
                  /\ out' = Append(out, "Input okay. Starting plot.")
                  /\ pc' = "okay"
             ELSE /\ parsed' = parsed
                  /\ out' = Append(out, "Invalid input.")
                  /\ pc' = "tail"
    /\ UNCHANGED <<call, exc, inp, code, steps, slow, np, nat,
                   args, env, files, status, calls, lines, plots>>

\* gui.py line 130: callback(machine_input), which enters waveforms (main.py
\* line 51)
CliCall ==
    /\ call = "main"
    /\ pc = "okay"
    /\ parsed' = parsed
    /\ calls' = Append(calls, parsed)
    /\ EnterWaveforms
    /\ pc' = "callback"
    /\ UNCHANGED <<call, exc, inp, steps, slow,
                   args, env, out, files, status, lines, plots>>

\* The callback once waveforms is through: an exception of waveforms that is
\* not a ValueError leaves the loop and ends the process; a ValueError of
\* plot_waveforms is printed by the loop's handler; else plt.show() opens the
\* plot window and waits for it to be closed.
CliCallbackDone ==
    /\ call = "main"
    /\ pc = "callback"
    /\ Finished(Backend)
    /\ IF Backend.pc = "raised"
         THEN Uncaught(Backend.exc) /\ out' = out /\ plots' = plots
         ELSE /\ IF PlotRaises(Backend.t, parsed)
                   THEN /\ out' = Append(out, "slice step cannot be zero")
                        /\ pc' = "tail"
                        /\ plots' = plots
                   ELSE /\ out' = Append(out, "plt.show()")
                        /\ pc' = "showing"
                        /\ plots' = plots + 1
              /\ UNCHANGED <<exc, status>>
    /\ UNCHANGED <<call, inp, parsed, code, steps, slow, np, nat,
                   args, env, files, calls, lines>>

\* plot.py line 92: the plot window is closed and plt.show() returns
CliPlotClosed ==
    /\ call = "main"
    /\ pc = "showing"
    /\ pc' = "tail"
    /\ plots' = plots - 1
    /\ UNCHANGED <<call, exc, inp, parsed, code, steps, slow, np, nat,
                   args, env, out, files, status, calls, lines>>

\* gui.py line 133: the end of the try, and round the loop
CliTail ==
    /\ call = "main"
    /\ pc = "tail"
    /\ pc' = "head"
    /\ UNCHANGED <<call, exc, inp, parsed, code, steps, slow, np, nat, proc>>

\* The positions inside the try of gui.py lines 122-133
InTry == {"input", "waiting", "read", "okay", "callback", "showing", "tail"}

\* gui.py line 134: KeyboardInterrupt inside the try is caught
CliInterrupt ==
    /\ call = "main"
    /\ pc \in InTry
    /\ exc' = "KeyboardInterrupt"
    /\ pc' = "leaving"
    /\ UNCHANGED <<call, inp, parsed, code, steps, slow, np, nat,
                   args, env, out, files, status, calls, lines, plots>>

\* gui.py lines 135-137: the handler prints "Leaving."
CliLeave ==
    /\ call = "main"
    /\ pc = "leaving"
    /\ out' = Append(out, "Leaving.")
    /\ pc' = "left"
    /\ UNCHANGED <<call, exc, inp, parsed, code, steps, slow, np, nat,
                   args, env, files, status, calls, lines, plots>>

\* gui.py line 138: sys.exit(130)
CliExit ==
    /\ call = "main"
    /\ pc = "left"
    /\ status' = "130"
    /\ pc' = "exit"
    /\ UNCHANGED <<call, exc, inp, parsed, code, steps, slow, np, nat,
                   args, env, out, files, calls, lines, plots>>

\* ---- _gui -----------------------------------------------------------------

\* The values of _PRE_MAP: "", "d_", "a_"
Prefixes == {<<>>, <<100, 95>>, <<97, 95>>}

\* str(v) of the exceptions the callback raises
ExcText(e) == IF e = "ZeroDivisionError" THEN "division by zero" ELSE e

\* Tk dispatches the events of the window: in main.mainloop(), and in the
\* event loop in which plt.show() waits inside a callback.
Dispatching == call = "main" /\ pc \in {"mainloop", "gui_showing"}

\* Where a callback that ends leaves the window: in the event loop of a
\* plt.show() still waiting, if there are n > 0 of them, else in the main loop
Resume(n) == IF n > 0 THEN "gui_showing" ELSE "mainloop"

\* gui.py lines 174, 181, 182: the Calculate button, <Return> or <KP_Enter>
\* runs its command with the selected prefix and the entry's text.
GuiCalculate ==
    /\ Dispatching
    /\ Len(lines) < MaxLines
    /\ \E prefix \in Prefixes, text \in Entered :
         /\ lines' = Append(lines, prefix \o text)
         /\ inp' = prefix \o text
    /\ pc' = "gui_evaluate"
    /\ UNCHANGED <<call, exc, parsed, code, steps, slow, np, nat,
                   args, env, out, files, status, calls, plots>>

\* callback(_evaluate_btn(prefix, entry)): a ValueError of _evaluate_btn
\* (lines 56-66) goes to report_callback_exception, which shows it in a
\* message box, and the event loop goes on; else the callback is called with
\* the result and enters waveforms.
GuiEvaluate ==
    /\ call = "main"
    /\ pc = "gui_evaluate"
    /\ LET r == _evaluate_input(inp)
       IN  IF r.exc = ""
             THEN /\ parsed' = r.value
                  /\ calls' = Append(calls, r.value)
                  /\ EnterWaveforms
                  /\ pc' = "gui_callback"
                  /\ out' = out
             ELSE /\ out' = Append(out, "showerror: Invalid input.")
                  /\ pc' = Resume(plots)
                  /\ UNCHANGED <<parsed, calls, code, np, nat>>
    /\ UNCHANGED <<call, exc, inp, steps, slow, args, env, files, status, lines, plots>>

\* The callback in the window once waveforms is through: any exception of
\* waveforms or plot_waveforms goes to report_callback_exception (gui.py line
\* 150); else plt.show() opens the plot window and waits in an event loop.
GuiCallbackDone ==
    /\ call = "main"
    /\ pc = "gui_callback"
    /\ Finished(Backend)
    /\ IF Backend.pc = "raised"
         THEN /\ out' = Append(out, "showerror: " \o ExcText(Backend.exc))
              /\ pc' = Resume(plots)
              /\ plots' = plots
         ELSE IF PlotRaises(Backend.t, parsed)
                THEN /\ out' = Append(out, "showerror: slice step cannot be zero")
                     /\ pc' = Resume(plots)
                     /\ plots' = plots
                ELSE /\ out' = Append(out, "plt.show()")
                     /\ pc' = "gui_showing"
                     /\ plots' = plots + 1
    /\ UNCHANGED <<call, exc, inp, parsed, code, steps, slow, np, nat,
                   args, env, files, status, calls, lines>>

\* A plot window is closed: its plt.show() returns and so does its callback
GuiPlotClosed ==
    /\ call = "main"
    /\ pc = "gui_showing"
    /\ plots' = plots - 1
    /\ pc' = Resume(plots')
    /\ UNCHANGED <<call, exc, inp, parsed, code, steps, slow, np, nat,
                   args, env, out, files, status, calls, lines>>

\* gui.py line 177: the Quit button, sys.exit(0); tkinter lets SystemExit
\* through, out of every event loop.
GuiQuit ==
    /\ Dispatching
    /\ exc' = "SystemExit"
    /\ status' = "0"
    /\ pc' = "exit"
    /\ plots' = 0
    /\ UNCHANGED <<call, inp, parsed, code, steps, slow, np, nat,
                   args, env, out, files, calls, lines>>

\* gui.py line 183: the window is closed with no plt.show() waiting;
\* mainloop() returns, and so do _gui, start and main.py.
GuiClose ==
    /\ call = "main"
    /\ pc = "mainloop"
    /\ plots = 0
    /\ status' = "0"
    /\ pc' = "exit"
    /\ UNCHANGED <<call, exc, inp, parsed, code, steps, slow, np, nat,
                   args, env, out, files, calls, lines, plots>>

\* SIGINT inside a command of the window - in _evaluate_btn, in waveforms or
\* while its plt.show() waits: tkinter's CallWrapper catches the
\* KeyboardInterrupt like any exception and report_callback_exception shows
\* str(v), which is empty.
GuiInterrupt ==
    /\ call = "main"
    /\ pc \in {"gui_evaluate", "gui_callback", "gui_showing"}
    /\ out' = Append(out, "showerror: ")
    /\ plots' = IF pc = "gui_showing" THEN plots - 1 ELSE plots
    /\ pc' = Resume(plots')
    /\ UNCHANGED <<call, exc, inp, parsed, code, steps, slow, np, nat,
                   args, env, files, status, calls, lines>>

\* Past its imports main.py has numpy (see Installations), so that
\* waveforms() dispatches to _waveforms_numpy.
NextMain ==
    \/ MainImports
    \/ MainCheckFlags
    \/ MainStart
    \/ MainStorePlot
    \/ MainStoreWave
    \/ MainPlotFile
    \/ MainSavefig
    \/ MainSaveFile
    \/ MainSaveWrite
    \/ Interrupt
    \/ CliBanner
    \/ CliHead
    \/ CliPrompt
    \/ CliLine
    \/ CliEof
    \/ CliEvaluate
    \/ CliCall
    \/ CliCallbackDone
    \/ CliPlotClosed
    \/ CliTail
    \/ CliInterrupt
    \/ CliLeave
    \/ CliExit
    \/ GuiCalculate
    \/ GuiEvaluate
    \/ GuiCallbackDone
    \/ GuiPlotClosed
    \/ GuiQuit
    \/ GuiClose
    \/ GuiInterrupt
    \/ MainNumpySetup
    \/ MainNumpyCycle
    \/ MainNumpyReturn

SpecMain == InitMain /\ [][NextMain]_vars

\* C11: when both --store-plot and --store-wave are given, no waveform is
\* generated and neither wave_<input>.png nor wave_<input>.txt is written.
C11_BothFlagsUsageError ==
    (call = "main" /\ args.store_plot # None /\ args.store_wave # None)
        => /\ ~Returned(np)
           /\ ~Returned(nat)
           /\ files = {}

\* The run is in the CLI loop or has left it
InCli ==
    /\ call = "main"
    /\ out # <<>>
    /\ out[1] = "AM FM PM Modulation Calculator"

\* The parsed values of the lines that parse, in the order entered
RECURSIVE ParsedOf(_)
ParsedOf(ls) ==
    IF ls = <<>> THEN <<>>
    ELSE LET r == _evaluate_input(Head(ls))
         IN  (IF r.exc = "" THEN <<r.value>> ELSE <<>>) \o ParsedOf(Tail(ls))

\* How often the loop has printed the text
Printed(text) == Cardinality({i \in 1..Len(out) : out[i] = text})

\* The entered lines that the loop has parsed, with either verdict
LinesParsed ==
    SubSeq(lines, 1, Printed("Input okay. Starting plot.") + Printed("Invalid input."))

\* The callback has been called for exactly the lines found to parse, each
\* time with the parsed bit sequence - at every position of the run but the
\* one between the verdict "Input okay" and the call that follows it.
CallbackIffParsed == (InCli /\ pc # "okay") => calls = ParsedOf(LinesParsed)

\* The loop has ended by a keyboard interrupt with status 130, when it has
\* ended.
EndsOnlyOnInterrupt ==
    (InCli /\ pc = "exit") => (exc = "KeyboardInterrupt" /\ status = "130")

\* The step that finds a line not to parse prints the error, calls no
\* callback and leaves the run in the loop, at the end of its try.
ParseFailureStaysInLoop ==
    [][(InCli /\ pc = "read" /\ _evaluate_input(inp).exc # "" /\ exc' = exc)
         => /\ pc' = "tail"
            /\ out' = Append(out, "Invalid input.")
            /\ calls' = calls
            /\ status' = "running"]_vars

\* From the end of the try the loop goes to its head, from there into
\* input() and to its prompt, unless a keyboard interrupt arrives.
LoopGoesRound ==
    [][/\ (InCli /\ pc = "tail") => (pc' = "head" \/ exc' = "KeyboardInterrupt")
       /\ (InCli /\ pc = "head") => (pc' = "input" \/ exc' = "KeyboardInterrupt")
       /\ (InCli /\ pc = "input")
            => (  (pc' = "waiting" /\ out' = Append(out, "Code: "))
               \/ exc' = "KeyboardInterrupt")]_vars

\* C12: in the CLI loop the callback is invoked for a line if and only if the
\* line parsed, with the parsed bits; a line that does not parse prints the
\* error, invokes no callback, and the loop prompts again; and the loop ends
\* only on a keyboard interrupt, with exit status 130.
C12_PromptLoop ==
    /\ [](CallbackIffParsed /\ EndsOnlyOnInterrupt)
    /\ ParseFailureStaysInLoop
    /\ LoopGoesRound

\* The callback is never called but for an entered line that parses, in
\* order and with the parsed bits.
CallbackOnlyIfParsed ==
    InCli => /\ Len(calls) <= Len(ParsedOf(lines))
             /\ calls = SubSeq(ParsedOf(lines), 1, Len(calls))

\* The end of standard input never ends the loop.
EofKeepsLoop == InCli => exc # "EOFError"

\* A keyboard interrupt in the loop always ends it with status 130.
InterruptExits130 == (InCli /\ pc = "exit" /\ exc = "KeyboardInterrupt") => status = "130"

\* With no signal and no end of standard input the loop never ends.
EndsOnlyOnSignalOrEof ==
    (InCli /\ pc = "exit") => (exc \in {"KeyboardInterrupt", "EOFError"})

====
